---- MODULE Spec2Model ----
(***************************************************************************)
(* Terminal Sounds extension (src/src/extension.ts): the error-signal      *)
(* detector.  Terminal output is stripped of ANSI escapes and tested       *)
(* against ERROR_PATTERNS; task and shell-execution exits are classified   *)
(* by exit code; every candidate passes the enabled flag and the           *)
(* DEBOUNCE_MS gate on lastPlayTime before playErrorSound is invoked.      *)
(***************************************************************************)
EXTENDS Integers, Sequences, FiniteSets, TLC

(***************************************************************************)
(* Characters and character classes of the regular expressions.  A string  *)
(* is a TLA+ string; Char(s, i) is its i-th character (1-based).           *)
(***************************************************************************)
Char(s, i) == SubSeq(s, i, i)

StrChars(s) == { Char(s, i) : i \in 1..Len(s) }

ESC == ""

LowerLetters == "abcdefghijklmnopqrstuvwxyz"

UpperLetters == "ABCDEFGHIJKLMNOPQRSTUVWXYZ"

Digits == StrChars("0123456789")

Letters == StrChars(LowerLetters) \cup StrChars(UpperLetters)

\* \w
WordChars == Letters \cup Digits \cup {"_"}

\* \s: the members that a one-character string here can hold (space, tab,
\* line feed, carriage return, form feed, vertical tab U+000B)
SpaceChars == {" ", "\t", "\n", "\r", "\f", ""}

\* line terminators, which '.' does not match
LineTerminators == {"\n", "\r"}

\* Canonicalize of the 'i' flag: ASCII letters compare by their upper case
UpperOf == [c \in StrChars(LowerLetters) |->
              LET i == CHOOSE k \in 1..Len(LowerLetters) : Char(LowerLetters, k) = c
              IN  Char(UpperLetters, i)]

Canon(c, ci) == IF ci /\ c \in DOMAIN UpperOf THEN UpperOf[c] ELSE c

(***************************************************************************)
(* Regular-expression syntax trees, one constructor per construct the      *)
(* source's patterns use.                                                  *)
(***************************************************************************)
Lit(str) == [op |-> "lit", s |-> str]

Cls(set) == [op |-> "cls", cs |-> set]

Dot == [op |-> "dot"]

WB == [op |-> "wb"]

Cat(kids) == [op |-> "cat", kids |-> kids]

Alt(kids) == [op |-> "alt", kids |-> kids]

Star(kid) == [op |-> "star", kid |-> kid]

Plus(kid) == Cat(<<kid, Star(kid)>>)

IsWordAt(s, k) == k >= 1 /\ k <= Len(s) /\ Char(s, k) \in WordChars

\* \b holds between characters i-1 and i
AtWordBoundary(s, i) == IsWordAt(s, i - 1) # IsWordAt(s, i)

LitMatches(str, s, i, ci) ==
    /\ i + Len(str) - 1 <= Len(s)
    /\ \A k \in 1..Len(str) : Canon(Char(s, i + k - 1), ci) = Canon(Char(str, k), ci)

(***************************************************************************)
(* Ends(n, s, i, ci): the positions at which a match of n that starts at   *)
(* position i of s can end (the position of the next unread character).    *)
(***************************************************************************)
RECURSIVE Ends(_, _, _, _)
RECURSIVE CatEnds(_, _, _, _, _)
RECURSIVE StarEnds(_, _, _, _)

Ends(n, s, i, ci) ==
    CASE n.op = "lit"  -> IF LitMatches(n.s, s, i, ci) THEN {i + Len(n.s)} ELSE {}
      [] n.op = "cls"  -> IF i <= Len(s) /\ Char(s, i) \in n.cs THEN {i + 1} ELSE {}
      [] n.op = "dot"  -> IF i <= Len(s) /\ Char(s, i) \notin LineTerminators THEN {i + 1} ELSE {}
      [] n.op = "wb"   -> IF AtWordBoundary(s, i) THEN {i} ELSE {}
      [] n.op = "cat"  -> CatEnds(n.kids, 1, s, i, ci)
      [] n.op = "alt"  -> UNION { Ends(n.kids[k], s, i, ci) : k \in 1..Len(n.kids) }
      [] n.op = "star" -> StarEnds(n.kid, s, i, ci)

CatEnds(kids, k, s, i, ci) ==
    IF k > Len(kids) THEN {i}
    ELSE UNION { CatEnds(kids, k + 1, s, j, ci) : j \in Ends(kids[k], s, i, ci) }

StarEnds(kid, s, i, ci) ==
    {i} \cup UNION { StarEnds(kid, s, j, ci) : j \in Ends(kid, s, i, ci) \ {i} }

\* RegExp.prototype.test without the 'g' flag: a match starting anywhere
RegExpTest(re, ci, s) == \E i \in 1..(Len(s) + 1) : Ends(re, s, i, ci) # {}

Max(S) == CHOOSE m \in S : \A x \in S : x <= m

(***************************************************************************)
(* String.prototype.replace(re, '') with the 'g' flag: scan left to right, *)
(* delete the match found at the current position and continue after it,  *)
(* otherwise keep the character.  The pattern of stripAnsi has at most one *)
(* end per start, so the greedy end is the only one.                        *)
(***************************************************************************)
RECURSIVE ReplaceAllFrom(_, _, _)
ReplaceAllFrom(re, s, i) ==
    IF i > Len(s) THEN ""
    ELSE LET es == Ends(re, s, i, FALSE) \ {i}
         IN  IF es # {} THEN ReplaceAllFrom(re, s, Max(es))
             ELSE Char(s, i) \o ReplaceAllFrom(re, s, i + 1)

\* variant: at least one parameter character required
ANSI_RE_NeedsParameter ==
    Cat(<<Lit(ESC), Lit("["), Plus(Cls(Digits \cup {";"})), Cls(Letters)>>)

\* /\x1b\[[0-9;]*[a-zA-Z]/
ANSI_RE == Cat(<<Lit(ESC), Lit("["), Star(Cls(Digits \cup {";"})), Cls(Letters)>>)

\* variant: replace without the 'g' flag, only the first match is deleted
RECURSIVE ReplaceFirstFrom(_, _, _)
ReplaceFirstFrom(re, s, i) ==
    IF i > Len(s) THEN ""
    ELSE LET es == Ends(re, s, i, FALSE) \ {i}
         IN  IF es # {} THEN SubSeq(s, Max(es), Len(s))
             ELSE Char(s, i) \o ReplaceFirstFrom(re, s, i + 1)

stripAnsiFirstOnly(text) == ReplaceFirstFrom(ANSI_RE, text, 1)

stripAnsi(text) == ReplaceAllFrom(ANSI_RE, text, 1)

Space == Cls(SpaceChars)

Word == Cls(WordChars)

Digit == Cls(Digits)

ExceptionNames == <<"TypeError", "SyntaxError", "ReferenceError", "RangeError",
    "ValueError", "KeyError", "AttributeError", "ImportError", "ModuleNotFoundError",
    "NameError", "IndexError", "FileNotFoundError", "PermissionError", "IOError",
    "OSError", "RuntimeError", "ZeroDivisionError">>

\* variant: the keyword at a word boundary with nothing required after it
GenericErrorBare == Cat(<<WB, Alt(<<Lit("error"), Lit("ERROR"), Lit("Error")>>)>>)

\* '\\b(?:error|ERROR|Error)(?:\\s*[:\\[]|\\s+\\w)'
GenericError ==
    Cat(<<WB, Alt(<<Lit("error"), Lit("ERROR"), Lit("Error")>>),
          Alt(<<Cat(<<Star(Space), Cls({":", "["})>>), Cat(<<Plus(Space), Word>>)>>)>>)

Signatures == <<
    GenericError,
    Cat(<<WB, Lit("FATAL"), WB>>),
    Cat(<<WB, Lit("fatal error"), WB>>),
    Cat(<<WB, Lit("Unhandled"), Plus(Space), Alt(<<Lit("Exception"), Lit("Rejection")>>), WB>>),
    Cat(<<WB, Lit("Traceback (most recent call last)")>>),
    Cat(<<WB, Alt([k \in 1..Len(ExceptionNames) |-> Lit(ExceptionNames[k])]), WB>>),
    Cat(<<WB, Lit("Exception in thread"), WB>>),
    Cat(<<WB, Lit("panic:"), WB>>),
    Cat(<<WB, Lit("BUILD FAILED"), WB>>),
    Cat(<<WB, Lit("Compilation failed"), WB>>),
    Cat(<<WB, Lit("FAILED"), WB>>),
    Cat(<<WB, Lit("npm ERR!"), WB>>),
    Cat(<<WB, Lit("ERR!"), WB>>),
    Cat(<<WB, Lit("error[E"), Plus(Digit), Lit("]")>>),
    Cat(<<WB, Lit(".go:"), Plus(Digit), Lit(":"), Plus(Digit), Lit(":"), Star(Dot)>>),
    Cat(<<WB, Alt(<<Lit("error"), Lit("fatal error")>>), Lit(":"), Space>>),
    Cat(<<WB, Lit("Segmentation fault"), WB>>),
    Cat(<<WB, Lit("segfault"), WB>>),
    Cat(<<WB, Lit("command not found"), WB>>),
    Cat(<<WB, Lit("is not recognized as"), WB>>),
    Cat(<<WB, Lit("Access is denied"), WB>>),
    Cat(<<WB, Lit("Permission denied"), WB>>) >>

\* the alternatives joined by '|', compiled with the 'i' flag
ERROR_PATTERNS == Alt(Signatures)

ERROR_PATTERNS_test(text) == RegExpTest(ERROR_PATTERNS, TRUE, text)

(***************************************************************************)
(* Bounds of the model and constants of the program.                        *)
(***************************************************************************)
DEBOUNCE_MS == 2000

\* clock readings span this many debounce windows
MaxWindows == 2

\* playback processes whose exec callback has not run yet
MaxProcs == 2

\* length of the generated chunks of the text specification
MaxLen == 4

\* the values Date.now() can return: 0, and for each window the reading that
\* is exactly DEBOUNCE_MS after the previous window's last reading and the one
\* a millisecond later (0, 2000, 2001, 4001, 4002, ...)
Times == {0} \cup { w * (DEBOUNCE_MS + 1) - d : w \in 1..MaxWindows, d \in {0, 1} }

NULL == 0

Pids == 1..MaxProcs

NoExit == [defined |-> FALSE, exitCode |-> 0]

\* e.exitCode of a task or shell-execution end event: undefined or a number
ExitEvents == {NoExit} \cup { [defined |-> TRUE, exitCode |-> c] : c \in {0, 1, -1, 130} }

\* output that the terminal delivers in two consecutive events: a coloured
\* error line cut inside its control sequence, and a signature cut in two
SplitPairs == { <<"[31", "merror: x">>, <<"Segmentation ", "fault">> }

\* e.data of the terminal-write events delivered to the running extension
HandlerChunks ==
    { "[31merror[0m: build broke", "compiled successfully" }
      \cup { pair[1] : pair \in SplitPairs } \cup { pair[2] : pair \in SplitPairs }

MoreChunks == { "npm ERR! code 1 in build", "[32mdone[0m" }

ClaimedPositives == { "TypeError: cannot read property", "Traceback (most recent call last):",
                      "panic: runtime error", "npm ERR! code 1", "Segmentation fault",
                      "Permission denied" }

ClaimedNegatives == { "no errors found, all green", "this function rarely fails" }

OtherChunks == { "error: x", "an error occurred", "error", "xerror: 1", "panic:x", "ERR!1",
                 "main.go:12:5: undefined", "error[E0308]", "fatal", "segfaults",
                 "error: x", "errorx", "UnhandledException", "error:",
                 "[1;31mFA[0mTAL", "a[[0mb" }

\* chunks in which control sequences are nested, adjacent or cut short
SequenceChunks == { "[[0mm", "[m[m", "[0m[1;2H", "line 1\n[2Kline 2",
                    "[31", "]0;title", "[?25l" }

Alphabet == {ESC, "[", "1", ";", "m", " "}

RECURSIVE StringsUpTo(_)
StringsUpTo(n) ==
    IF n = 0 THEN {""}
    ELSE LET shorter == StringsUpTo(n - 1)
         IN  shorter \cup { p \o a : p \in shorter, a \in Alphabet }

TextInputs == ClaimedPositives \cup ClaimedNegatives \cup OtherChunks \cup HandlerChunks \cup MoreChunks
              \cup SequenceChunks \cup StringsUpTo(MaxLen)

VARIABLES
    enabled,              \* let enabled
    lastPlayTime,         \* let lastPlayTime
    currentSoundProcess,  \* let currentSoundProcess: NULL or the pid of a playback
    procs,                \* the playback processes started by exec, by pid
    active,               \* the listeners and commands are registered
    clock,                \* what Date.now() returns
    lastEvent,            \* history: the last host event and what became of it
    fireLog,              \* history: the clock readings of all Fire decisions
    handlerPlays,         \* history: the clock readings at which a listener called playErrorSound
    recentPlay,           \* history: the reading of the last playErrorSound call while the
                          \* clock has stayed within DEBOUNCE_MS after it, else -1
    chunk, clean, matched, tpc,  \* the text pipeline on one chunk
    sources,              \* the listeners through which the host delivers events: one is
                          \* missing when the host lacks its API, so that it was never
                          \* registered, or when no event of its kind arrives
    lastIndex             \* ERROR_PATTERNS.lastIndex

progVars == <<enabled, lastPlayTime, currentSoundProcess, procs, active, lastIndex, sources>>

histVars == <<lastEvent, fireLog, handlerPlays, recentPlay>>

textVars == <<chunk, clean, matched, tpc>>

vars == <<enabled, lastPlayTime, currentSoundProcess, procs, active, clock,
          lastEvent, fireLog, handlerPlays, recentPlay,
          chunk, clean, matched, tpc, sources, lastIndex>>

\* the record of a step; completes: the chunk is the second half of a split
\* pair and the event before it delivered the first half
Event(kind, data, exit, cand, decision) ==
    [kind |-> kind, data |-> data, exit |-> exit, cand |-> cand, decision |-> decision,
     completes |-> /\ kind = "terminal" /\ lastEvent.kind = "terminal"
                   /\ <<lastEvent.data, data>> \in SplitPairs]

ListenerKinds == {"terminal", "task", "shell"}

\* the state after activate(): enabled is the persisted setting, default true
InitProgram ==
    /\ enabled \in BOOLEAN
    /\ lastPlayTime = 0
    /\ currentSoundProcess = NULL
    /\ procs = [p \in Pids |-> "none"]
    /\ active = TRUE
    /\ lastEvent = [kind |-> "activate", data |-> "", exit |-> NoExit, cand |-> FALSE,
                    decision |-> "None", completes |-> FALSE]
    /\ fireLog = {}
    /\ handlerPlays = {}
    /\ recentPlay = -1
    /\ lastIndex = 0

InitText == chunk = "" /\ clean = "" /\ matched = FALSE /\ tpc = "idle"

Init == InitProgram /\ sources = ListenerKinds /\ clock \in Times /\ InitText

(***************************************************************************)
(* playErrorSound: kill the playback currentSoundProcess refers to, then   *)
(* exec a new one and keep its handle.                                      *)
(***************************************************************************)
KillCurrent(ps) ==
    IF currentSoundProcess # NULL
    THEN [ps EXCEPT ![currentSoundProcess] = IF @ = "running" THEN "killed" ELSE @]
    ELSE ps

FreePids(ps) == { p \in Pids : ps[p] = "none" }

Min(S) == CHOOSE m \in S : \A x \in S : m <= x

playErrorSound ==
    LET afterKill == KillCurrent(procs)
    IN  /\ FreePids(afterKill) # {}
        /\ LET p == Min(FreePids(afterKill))
           IN  /\ procs' = [afterKill EXCEPT ![p] = "running"]
               /\ currentSoundProcess' = p
        /\ recentPlay' = clock

NoPlay == UNCHANGED <<currentSoundProcess, procs, recentPlay>>

\* variants of the window test: the window taken in seconds, and '>=' for '>'
DebounceElapsedSeconds(now) == now - lastPlayTime > DEBOUNCE_MS \div 1000

DebounceElapsedInclusive(now) == now - lastPlayTime >= DEBOUNCE_MS

\* variant: the distance to the last fire taken in either direction
DebounceElapsedAbsolute(now) ==
    IF now >= lastPlayTime THEN now - lastPlayTime > DEBOUNCE_MS
    ELSE lastPlayTime - now > DEBOUNCE_MS

\* now - lastPlayTime > DEBOUNCE_MS
DebounceElapsed(now) == now - lastPlayTime > DEBOUNCE_MS

\* variant: only positive exit codes count as failures
ExitFailedPositive(e) == e.defined /\ e.exitCode > 0

\* e.exitCode !== undefined && e.exitCode !== 0
ExitFailed(e) == e.defined /\ e.exitCode # 0

\* the body shared by the three listeners once the event is a candidate:
\* const now = Date.now(); if (now - lastPlayTime > DEBOUNCE_MS) { ... }
Debounce(kind, data, exit) ==
    LET now == clock
    IN  IF DebounceElapsed(now)
        THEN /\ lastPlayTime' = now
             /\ playErrorSound
             /\ fireLog' = fireLog \cup {now}
             /\ handlerPlays' = handlerPlays \cup {clock}
             /\ lastEvent' = Event(kind, data, exit, TRUE, "Fire")
        ELSE /\ NoPlay
             /\ UNCHANGED <<lastPlayTime, fireLog, handlerPlays>>
             /\ lastEvent' = Event(kind, data, exit, TRUE, "Suppress")

Dropped(kind, data, exit, cand) ==
    /\ NoPlay
    /\ UNCHANGED <<lastPlayTime, fireLog, handlerPlays>>
    /\ lastEvent' = Event(kind, data, exit, cand, "Suppress")

\* ERROR_PATTERNS.test(stripAnsi(e.data)) for the chunks the listener receives
IsErrorChunk == [data \in HandlerChunks |-> ERROR_PATTERNS_test(stripAnsi(data))]

\* the flags ERROR_PATTERNS is compiled with; variant: with the 'g' flag too
ERROR_PATTERNS_flagsGlobal == {"g", "i"}

ERROR_PATTERNS_flags == {"i"}

(***************************************************************************)
(* RegExp.prototype.test on a RegExp object: with the 'g' flag the search  *)
(* starts at lastIndex and leaves the end of the match there (0 after a    *)
(* failure; the end taken is the longest one); without it lastIndex is     *)
(* neither read nor written.                                                *)
(***************************************************************************)
RegExpObjectTest(re, flags, li, s) ==
    LET ci == "i" \in flags
    IN  IF "g" \in flags
        THEN LET starts == { i \in (li + 1)..(Len(s) + 1) : Ends(re, s, i, ci) # {} }
             IN  IF starts = {} THEN [result |-> FALSE, lastIndex |-> 0]
                 ELSE [result |-> TRUE, lastIndex |-> Max(Ends(re, s, Min(starts), ci)) - 1]
        ELSE [result |-> RegExpTest(re, ci, s), lastIndex |-> li]

\* ERROR_PATTERNS.test(clean) of the listener, by chunk and current lastIndex
TestOnChunk ==
    [data \in HandlerChunks |->
        LET text == stripAnsi(data)
        IN  [li \in 0..Max({ Len(stripAnsi(d)) : d \in HandlerChunks }) |->
                RegExpObjectTest(ERROR_PATTERNS, ERROR_PATTERNS_flags, li, text)]]

\* variant: playErrorSound called after the window test instead of inside it
onDidWriteTerminalDataPlaysOutside(data) ==
    /\ active /\ "terminal" \in sources
    /\ LET tested == TestOnChunk[data][lastIndex]
           cand == tested.result
       IN  IF ~enabled
           THEN Dropped("terminal", data, NoExit, IsErrorChunk[data]) /\ lastIndex' = lastIndex
           ELSE lastIndex' = tested.lastIndex /\ IF cand
           THEN /\ IF DebounceElapsed(clock)
                   THEN /\ lastPlayTime' = clock
                        /\ fireLog' = fireLog \cup {clock}
                        /\ lastEvent' = Event("terminal", data, NoExit, TRUE, "Fire")
                   ELSE /\ UNCHANGED <<lastPlayTime, fireLog>>
                        /\ lastEvent' = Event("terminal", data, NoExit, TRUE, "Suppress")
                /\ playErrorSound
                /\ handlerPlays' = handlerPlays \cup {clock}
           ELSE Dropped("terminal", data, NoExit, FALSE)
    /\ UNCHANGED <<enabled, active, clock, chunk, clean, matched, tpc, sources>>

onDidWriteTerminalData(data) ==
    /\ active /\ "terminal" \in sources
    /\ LET tested == TestOnChunk[data][lastIndex]
           cand == tested.result
       IN  IF ~enabled
           THEN Dropped("terminal", data, NoExit, IsErrorChunk[data]) /\ lastIndex' = lastIndex
           ELSE /\ lastIndex' = tested.lastIndex
                /\ IF cand THEN Debounce("terminal", data, NoExit)
                   ELSE Dropped("terminal", data, NoExit, FALSE)
    /\ UNCHANGED <<enabled, active, clock, chunk, clean, matched, tpc, sources>>

\* variant: the exit path fires only after something has fired before
onDidEndTaskProcessNeedsEarlierFire(e) ==
    /\ active /\ "task" \in sources
    /\ IF ~enabled THEN Dropped("task", "", e, ExitFailed(e))
       ELSE IF ExitFailed(e) /\ lastPlayTime # 0 THEN Debounce("task", "", e)
       ELSE Dropped("task", "", e, ExitFailed(e))
    /\ UNCHANGED <<enabled, active, clock, chunk, clean, matched, tpc, sources, lastIndex>>

onDidEndTaskProcess(e) ==
    /\ active /\ "task" \in sources
    /\ IF ~enabled THEN Dropped("task", "", e, ExitFailed(e))
       ELSE IF ExitFailed(e) THEN Debounce("task", "", e)
       ELSE Dropped("task", "", e, FALSE)
    /\ UNCHANGED <<enabled, active, clock, chunk, clean, matched, tpc, sources, lastIndex>>

\* variant: the listener without its enabled check
onDidEndTerminalShellExecutionUnguarded(e) ==
    /\ active /\ "shell" \in sources
    /\ IF ExitFailed(e) THEN Debounce("shell", "", e)
       ELSE Dropped("shell", "", e, FALSE)
    /\ UNCHANGED <<enabled, active, clock, chunk, clean, matched, tpc, sources, lastIndex>>

onDidEndTerminalShellExecution(e) ==
    /\ active /\ "shell" \in sources
    /\ IF ~enabled THEN Dropped("shell", "", e, ExitFailed(e))
       ELSE IF ExitFailed(e) THEN Debounce("shell", "", e)
       ELSE Dropped("shell", "", e, FALSE)
    /\ UNCHANGED <<enabled, active, clock, chunk, clean, matched, tpc, sources, lastIndex>>

\* variant: switching detection back on replays the alert
toggleCmdReplays ==
    /\ active
    /\ enabled' = ~enabled
    /\ IF enabled' THEN playErrorSound ELSE NoPlay
    /\ lastEvent' = Event("toggle", "", NoExit, FALSE, "None")
    /\ UNCHANGED <<lastPlayTime, active, clock, fireLog, handlerPlays,
                   chunk, clean, matched, tpc, sources, lastIndex>>

\* command terminalSounds.toggle
toggleCmd ==
    /\ active
    /\ enabled' = ~enabled
    /\ NoPlay
    /\ lastEvent' = Event("toggle", "", NoExit, FALSE, "None")
    /\ UNCHANGED <<lastPlayTime, active, clock, fireLog, handlerPlays,
                   chunk, clean, matched, tpc, sources, lastIndex>>

\* variant: the test sound stamps the debounce window
testErrorCmdStamps ==
    /\ active
    /\ playErrorSound
    /\ lastPlayTime' = clock
    /\ lastEvent' = Event("testError", "", NoExit, FALSE, "None")
    /\ UNCHANGED <<enabled, active, clock, fireLog, handlerPlays,
                   chunk, clean, matched, tpc, sources, lastIndex>>

\* command terminalSounds.testError
testErrorCmd ==
    /\ active
    /\ playErrorSound
    /\ lastEvent' = Event("testError", "", NoExit, FALSE, "None")
    /\ UNCHANGED <<enabled, lastPlayTime, active, clock, fireLog, handlerPlays,
                   chunk, clean, matched, tpc, sources, lastIndex>>

(***************************************************************************)
(* The callback given to exec runs when playback p has ended: by itself    *)
(* (err null), with an error, or because it was killed (err.killed).  A    *)
(* child on which kill() was called may have ended before the call, its    *)
(* callback still pending: the callback then reports how it ended itself.  *)
(***************************************************************************)
Outcomes(p) == IF procs[p] = "killed" THEN {"killed", "ok", "failed"} ELSE {"ok", "failed"}

\* variant: a failed playback switches detection off
execCallbackDisables(p, outcome) ==
    /\ procs[p] # "none"
    /\ outcome \in Outcomes(p)
    /\ currentSoundProcess' = NULL
    /\ procs' = [procs EXCEPT ![p] = "none"]
    /\ enabled' = (enabled /\ outcome # "failed")
    /\ lastEvent' = Event("callback", outcome, NoExit, FALSE, "None")
    /\ UNCHANGED <<lastPlayTime, active, clock, fireLog, handlerPlays, recentPlay,
                   chunk, clean, matched, tpc, sources, lastIndex>>

execCallback(p, outcome) ==
    /\ procs[p] # "none"
    /\ outcome \in Outcomes(p)
    /\ currentSoundProcess' = NULL
    /\ procs' = [procs EXCEPT ![p] = "none"]
    /\ lastEvent' = Event("callback", outcome, NoExit, FALSE, "None")
    /\ UNCHANGED <<enabled, lastPlayTime, active, clock, fireLog, handlerPlays, recentPlay,
                   chunk, clean, matched, tpc, sources, lastIndex>>

deactivate ==
    /\ active
    /\ active' = FALSE
    /\ procs' = KillCurrent(procs)
    /\ currentSoundProcess' = NULL
    /\ lastEvent' = Event("deactivate", "", NoExit, FALSE, "None")
    /\ UNCHANGED <<enabled, lastPlayTime, clock, fireLog, handlerPlays, recentPlay,
                   chunk, clean, matched, tpc, sources, lastIndex>>

\* time passes, or the system clock is set: Date.now() returns another value
Tick(t) ==
    /\ t # clock
    /\ clock' = t
    /\ lastEvent' = Event("tick", "", NoExit, FALSE, "None")
    /\ recentPlay' = IF recentPlay # -1 /\ t >= recentPlay /\ t - recentPlay <= DEBOUNCE_MS
                     THEN recentPlay ELSE -1
    /\ UNCHANGED <<enabled, lastPlayTime, currentSoundProcess, procs, active,
                   fireLog, handlerPlays, chunk, clean, matched, tpc, sources, lastIndex>>

Next ==
    \/ \E data \in HandlerChunks : onDidWriteTerminalData(data)
    \/ \E e \in ExitEvents : onDidEndTaskProcess(e)
    \/ \E e \in ExitEvents : onDidEndTerminalShellExecution(e)
    \/ toggleCmd
    \/ testErrorCmd
    \/ \E p \in Pids : \E outcome \in {"ok", "failed", "killed"} : execCallback(p, outcome)
    \/ deactivate
    \/ \E t \in Times : Tick(t)

Spec == Init /\ [][Next]_vars

(***************************************************************************)
(* The extension on a host where only part of the event sources deliver:   *)
(* the exit listeners without live output (onDidWriteTerminalData absent), *)
(* the task listener alone (both optional APIs absent), and live output    *)
(* with no exit event arriving.                                             *)
(***************************************************************************)
PartialSources == { {"task", "shell"}, {"task"}, {"terminal"} }

PartialInit == InitProgram /\ sources \in PartialSources /\ clock \in Times /\ InitText

PartialSpec == PartialInit /\ [][Next]_vars

(***************************************************************************)
(* The text pipeline on one chunk: stripAnsi, then ERROR_PATTERNS.test.    *)
(***************************************************************************)
TextInit ==
    /\ InitProgram /\ sources = ListenerKinds /\ clock = 0
    /\ chunk \in TextInputs /\ clean = "" /\ matched = FALSE /\ tpc = "raw"

Normalize ==
    /\ tpc = "raw"
    /\ clean' = stripAnsi(chunk)
    /\ tpc' = "clean"
    /\ UNCHANGED <<chunk, matched, clock>> /\ UNCHANGED progVars /\ UNCHANGED histVars

Classify ==
    /\ tpc = "clean"
    /\ matched' = ERROR_PATTERNS_test(clean)
    /\ tpc' = "classified"
    /\ UNCHANGED <<chunk, clean, clock>> /\ UNCHANGED progVars /\ UNCHANGED histVars

TextNext == Normalize \/ Classify

TextSpec == TextInit /\ [][TextNext]_vars

(***************************************************************************)
(* Properties.  A listener step is a step whose event, recorded in         *)
(* lastEvent', came from one of the three listeners; unprimed variables    *)
(* are the state the listener found.                                        *)
(***************************************************************************)
ListenerStep == lastEvent'.kind \in ListenerKinds

FireStep == ListenerStep /\ lastEvent'.decision = "Fire"

\* a playback process was started in this step
PlaybackStarted == \E p \in Pids : procs[p] # "running" /\ procs'[p] = "running"

\* C1: every Fire decision, whichever listener makes it, comes more than
\* DEBOUNCE_MS after every earlier Fire decision.
FiresAreApart ==
    [][FireStep => \A t \in fireLog : clock' - t > DEBOUNCE_MS]_vars

\* two fires so far, and a failing exit delivered at the very reading of the
\* last fire was suppressed
C1Witness ==
    /\ Cardinality(fireLog) >= 2
    /\ lastEvent.kind \in {"task", "shell"} /\ lastEvent.cand
    /\ lastEvent.decision = "Suppress" /\ enabled /\ clock \in fireLog

\* C2: with detection enabled a candidate fires (and stamps lastPlayTime) iff
\* nothing has fired yet or more than DEBOUNCE_MS passed since the last fire;
\* in particular the first candidate fires whatever the clock reads.
FirstCandidateFires ==
    [][(ListenerStep /\ lastEvent'.cand /\ enabled)
         => /\ lastEvent'.decision = "Fire"
                 <=> (fireLog = {} \/ clock - lastPlayTime > DEBOUNCE_MS)
            /\ lastEvent'.decision = "Fire" => lastPlayTime' = clock]_vars

\* C3: a candidate at exactly lastPlayTime + DEBOUNCE_MS is suppressed, one
\* millisecond later it fires; the same in all three listeners.
BoundaryIsStrict ==
    [][(ListenerStep /\ lastEvent'.cand /\ enabled)
         => /\ clock = lastPlayTime + DEBOUNCE_MS
                 => lastEvent'.decision = "Suppress" /\ lastPlayTime' = lastPlayTime
            /\ clock = lastPlayTime + DEBOUNCE_MS + 1
                 => lastEvent'.decision = "Fire" /\ lastPlayTime' = clock]_vars

\* a failing task exit exactly DEBOUNCE_MS after a fire was suppressed
C3Witness ==
    /\ lastPlayTime \in fireLog /\ clock = lastPlayTime + DEBOUNCE_MS
    /\ enabled /\ lastEvent.kind = "task" /\ lastEvent.cand
    /\ lastEvent.decision = "Suppress"

\* C4: while enabled is false every listener event is suppressed: no playback
\* is started and lastPlayTime keeps its value.
DisabledSuppresses ==
    [][(ListenerStep /\ ~enabled)
         => /\ lastEvent'.decision = "Suppress"
            /\ ~PlaybackStarted
            /\ UNCHANGED <<lastPlayTime, currentSoundProcess, procs, recentPlay, fireLog>>]_vars

\* disabled, a candidate arrived after the window of an earlier fire had
\* passed, and it was suppressed
C4Witness ==
    /\ ~enabled /\ lastEvent.kind \in ListenerKinds /\ lastEvent.cand
    /\ lastEvent.decision = "Suppress"
    /\ lastPlayTime \in fireLog /\ clock - lastPlayTime > DEBOUNCE_MS

InvocationStep == FireStep \/ lastEvent'.kind = "testError"

\* C5 as stated: playErrorSound, whether a listener or a command calls it, is
\* never invoked while the invocation before it is at most DEBOUNCE_MS old.
InvocationsAreApart ==
    [][InvocationStep => recentPlay = -1]_vars

\* C5 amended: invocations made by the listeners are more than DEBOUNCE_MS
\* apart; the testError command invokes playErrorSound at once every time and
\* leaves lastPlayTime alone.
ListenerInvocationsAreApart ==
    [][/\ (ListenerStep /\ PlaybackStarted) => \A t \in handlerPlays : clock' - t > DEBOUNCE_MS
       /\ lastEvent'.kind = "testError"
            => PlaybackStarted /\ recentPlay' = clock /\ lastPlayTime' = lastPlayTime]_vars

\* two listener invocations so far, then a test sound inside the window of
\* the last one
C5Witness ==
    /\ Cardinality(handlerPlays) >= 2
    /\ lastEvent.kind = "testError" /\ recentPlay = clock
    /\ clock >= lastPlayTime /\ clock - lastPlayTime <= DEBOUNCE_MS

\* C6: an exit event is a candidate iff its code is defined and not 0, in
\* both exit listeners; when detection is on and the window has passed it
\* fires exactly in that case.
ExitCodeRule ==
    [][lastEvent'.kind \in {"task", "shell"}
         => LET e == lastEvent'.exit
                failed == e.defined /\ e.exitCode # 0
            IN  /\ lastEvent'.cand <=> failed
                /\ lastEvent'.decision = "Fire" => failed
                /\ (enabled /\ clock - lastPlayTime > DEBOUNCE_MS)
                     => (lastEvent'.decision = "Fire" <=> failed)]_vars

\* a shell execution that ended with a negative code fired
C6Witness ==
    /\ lastEvent.kind = "shell" /\ lastEvent.exit.defined /\ lastEvent.exit.exitCode = -1
    /\ lastEvent.decision = "Fire"

\* C7: the classifier returns true for each of the six literal inputs.
ClaimedPositivesMatch ==
    (tpc = "classified" /\ chunk \in ClaimedPositives) => matched

\* the shape the generic keyword signature is described by: 'error' in any
\* letter case starting at a word boundary, then either optional whitespace
\* and ':' or '[', or at least one whitespace character and a word character
GenericErrorShape(s) ==
    \E i \in 1..Len(s) :
        /\ AtWordBoundary(s, i)
        /\ LitMatches("error", s, i, TRUE)
        /\ \E j \in (i + 5)..Len(s) :
              /\ \A k \in (i + 5)..(j - 1) : Char(s, k) \in SpaceChars
              /\ \/ Char(s, j) \in {":", "["}
                 \/ j > i + 5 /\ Char(s, j) \in WordChars

\* C8: the generic keyword signature matches exactly the described shape, and
\* the classifier returns false for the two prose inputs.
GenericErrorIsAnchored ==
    tpc = "classified"
      => /\ RegExpTest(GenericError, TRUE, clean) <=> GenericErrorShape(clean)
         /\ chunk \in ClaimedNegatives => ~matched

\* the plural 'errors' was classified and did not match
C8Witness ==
    tpc = "classified" /\ chunk = "no errors found, all green" /\ ~matched

\* C9: the exec callback changes neither enabled nor lastPlayTime, and a
\* candidate that finds detection on and the window passed fires and starts a
\* new playback, whatever became of the playbacks before it.
DispatchFailureIsHarmless ==
    [][/\ lastEvent'.kind = "callback" => UNCHANGED <<enabled, lastPlayTime>>
       /\ (ListenerStep /\ lastEvent'.cand /\ enabled /\ clock - lastPlayTime > DEBOUNCE_MS)
            => /\ lastEvent'.decision = "Fire"
               /\ currentSoundProcess' # NULL
               /\ procs[currentSoundProcess'] = "none"
               /\ procs'[currentSoundProcess'] = "running"]_vars

\* a playback that followed a fire has just failed; detection is on and the
\* window has passed, so the next candidate is due to fire
C9Witness ==
    /\ lastEvent.kind = "callback" /\ lastEvent.data = "failed"
    /\ enabled /\ active /\ lastPlayTime \in fireLog
    /\ clock - lastPlayTime > DEBOUNCE_MS

\* C10: a suppressed event leaves nothing behind in the program's state, and
\* a playback starts only in the step of a firing candidate or of the
\* testError command: never in a clock, toggle, callback or deactivate step.
SuppressIsFinal ==
    [][/\ (ListenerStep /\ lastEvent'.decision = "Suppress") => UNCHANGED progVars
       /\ PlaybackStarted
            => \/ FireStep /\ lastEvent'.cand
               \/ lastEvent'.kind = "testError"]_vars

\* detection was switched back on after the window of the last fire had
\* passed, and nothing is playing
C10Witness ==
    /\ lastEvent.kind = "toggle" /\ enabled
    /\ lastPlayTime \in fireLog /\ clock - lastPlayTime > DEBOUNCE_MS
    /\ recentPlay = -1 /\ \A p \in Pids : procs[p] = "none"

\* C11: enabled changes only in the toggle command and lastPlayTime only in
\* a firing listener step; the toggle and testError commands leave
\* lastPlayTime alone, and the listener that runs right after a toggle
\* decides by the new value of enabled.
StateChangesOnlyByItsOperation ==
    [][/\ enabled' # enabled => lastEvent'.kind = "toggle"
       /\ lastEvent'.kind = "toggle" => enabled' = ~enabled
       /\ lastPlayTime' # lastPlayTime => FireStep
       /\ lastEvent'.kind \in {"toggle", "testError"} => lastPlayTime' = lastPlayTime
       /\ (ListenerStep /\ lastEvent.kind = "toggle")
            => (lastEvent'.decision = "Fire"
                  <=> (enabled /\ lastEvent'.cand /\ clock - lastPlayTime > DEBOUNCE_MS))]_vars

\* detection has just been switched on again inside the window of a fire,
\* and lastPlayTime still holds the reading of that fire
C11Witness ==
    /\ lastEvent.kind = "toggle" /\ enabled /\ lastPlayTime \in fireLog
    /\ clock > lastPlayTime /\ clock - lastPlayTime <= DEBOUNCE_MS

RunningPids == { p \in Pids : procs[p] = "running" }

\* C13: at most one playback process that has not been killed exists at any
\* time.
AtMostOnePlayback == Cardinality(RunningPids) <= 1

\* C17: once deactivate has run, no playback started by the extension is
\* still running.
NothingPlaysAfterDeactivate == ~active => RunningPids = {}

\* C18: lastPlayTime never decreases, and a candidate whose clock reading is
\* at or before lastPlayTime + DEBOUNCE_MS is suppressed, also when the
\* reading lies before lastPlayTime.
LastPlayTimeIsMonotonic ==
    [][/\ lastPlayTime' >= lastPlayTime
       /\ (ListenerStep /\ lastEvent'.cand /\ clock <= lastPlayTime + DEBOUNCE_MS)
            => lastEvent'.decision = "Suppress" /\ lastPlayTime' = lastPlayTime]_vars

\* the clock was set back by more than a window after a fire, and a
\* candidate read there was suppressed
C18Witness ==
    /\ lastPlayTime \in fireLog /\ lastPlayTime - clock > DEBOUNCE_MS
    /\ enabled /\ lastEvent.kind \in ListenerKinds /\ lastEvent.cand
    /\ lastEvent.decision = "Suppress"

\* the shape of a control sequence, read off the characters: ESC, '[', any
\* number of digits and ';', one ASCII letter, at positions i..j of x
IsControlSequence(x, i, j) ==
    /\ Char(x, i) = ESC
    /\ i + 2 <= j /\ j <= Len(x)
    /\ Char(x, i + 1) = "["
    /\ Char(x, j) \in Letters
    /\ \A k \in (i + 2)..(j - 1) : Char(x, k) \in Digits \cup {";"}

InControlSequence(x, k) ==
    \E i \in 1..k : \E j \in k..Len(x) : IsControlSequence(x, i, j)

\* every ESC of x starts a control sequence
WellFormed(x) ==
    \A i \in 1..Len(x) : Char(x, i) = ESC => \E j \in i..Len(x) : IsControlSequence(x, i, j)

\* x without the characters that lie in a control sequence
RECURSIVE KeptFrom(_, _)
KeptFrom(x, k) ==
    IF k > Len(x) THEN ""
    ELSE (IF InControlSequence(x, k) THEN "" ELSE Char(x, k)) \o KeptFrom(x, k + 1)

\* C12: stripping a stripped chunk changes nothing, for every chunk whose
\* control sequences are all well formed.
NormalizationIsIdempotent ==
    (tpc # "raw" /\ WellFormed(chunk)) => stripAnsi(clean) = clean

\* a chunk with two well-formed sequences around text was stripped
C12Witness ==
    /\ tpc = "clean" /\ chunk = "[1;31mFA[0mTAL" /\ WellFormed(chunk)
    /\ clean = "FATAL"

\* C15: stripAnsi deletes exactly the characters that lie in a control
\* sequence and keeps all others in order; a chunk without a complete
\* sequence, and the empty chunk, come out unchanged.
StripsExactlyControlSequences ==
    tpc # "raw"
      => /\ clean = KeptFrom(chunk, 1)
         /\ (\A i \in 1..Len(chunk) : ~InControlSequence(chunk, i)) => clean = chunk
         /\ chunk = "" => clean = ""

\* a cut-short sequence directly followed by a complete one: only the
\* complete one was deleted
C15Witness ==
    tpc = "clean" /\ chunk = "a[[0mb" /\ clean = "a[b"

\* C14: on a host where only the exit sources, or only live output, deliver
\* events, every listener step decides by the debounce gate alone: it fires
\* iff detection is on, the event is a candidate and the window has passed.
PathsAreIndependent ==
    [][ListenerStep
         => /\ lastEvent'.kind \in sources
            /\ lastEvent'.decision = "Fire"
                 <=> (enabled /\ lastEvent'.cand /\ clock - lastPlayTime > DEBOUNCE_MS)
            /\ lastEvent'.decision = "Fire" => lastPlayTime' = clock /\ PlaybackStarted]_vars

\* live output was never wired up, and a failing task exit fired as the
\* first fire since startup
C14Witness ==
    /\ "terminal" \notin sources
    /\ lastEvent.kind = "task" /\ lastEvent.decision = "Fire"
    /\ fireLog = {clock} /\ lastPlayTime = clock

\* C16: whether a chunk is a candidate depends on that chunk alone: the
\* listener's result is the classification of the stripped chunk from its
\* start, and the RegExp object carries nothing over to the next chunk.
ClassificationIsStateless ==
    [][(lastEvent'.kind = "terminal" /\ enabled)
         => /\ lastEvent'.cand = IsErrorChunk[lastEvent'.data]
            /\ lastIndex' = 0]_vars

\* the joined text of every split pair is a candidate
JoinedIsCandidate == \A pair \in SplitPairs : ERROR_PATTERNS_test(stripAnsi(pair[1] \o pair[2]))

\* a coloured error line arrived cut inside its control sequence, with
\* detection on and the window passed: the second half, taken alone, was no
\* candidate although the joined line is one
C16Witness ==
    /\ lastEvent.kind = "terminal" /\ lastEvent.completes /\ lastEvent.data = "merror: x"
    /\ enabled /\ clock - lastPlayTime > DEBOUNCE_MS
    /\ ~lastEvent.cand /\ lastEvent.decision = "Suppress" /\ lastIndex = 0
    /\ JoinedIsCandidate

====
